---- MODULE Spec2Model ----
(***************************************************************************)
(* ViperMonkey, vmonkey.py: the source normalizer (collapse_macro_if_blocks,*)
(* strip_useless_code), the stream parsing front end (parse_stream and     *)
(* parse_streams) and the per-document entry point (process_file).         *)
(*                                                                         *)
(* A Python str is a TLA+ string (Len, SubSeq and \o apply to it).  A text  *)
(* is the sequence of its lines, text.split("\n"): a text built by          *)
(* r += line + "\n" is the emitted lines followed by one empty line.       *)
(***************************************************************************)
EXTENDS Integers, Sequences, FiniteSets, TLC

VARIABLES
  \* the normalizer applied to a text
  text_in,           \* the text handed to the normalizer
  applied,           \* the passes applied so far, each to the result of the one before
  last_in,           \* the text the last pass was applied to
  steps,             \* strip_useless_code's third loop on last_in, one record per line
  r_out              \* the text the last pass returned

norm_vars == <<text_in, applied, last_in, steps, r_out>>

VARIABLES
  \* main and process_file
  pc,                \* where the program is: in main's loop or at a step of process_file
  n_files,           \* the documents main has handed to process_file
  opt_strip,         \* options.strip_useless_code, passed as strip_useless
  parallel,          \* the module global 'parallel'
  doc,               \* the document being processed
  vm,                \* the ViperMonkey emulator of this document
  comp_modules,      \* what parse_streams returned
  result,            \* what the last process_file returned
  vba_library_meta,  \* the module global vba_library.meta
  vba_object_meta,   \* the module global vba_object.meta
  packrat_cache,     \* the memoization table of ParserElement (enablePackrat)
  cache_log,         \* the table as each parse of this document's streams found it
  opt_scan,          \* options.scan_expressions
  passes             \* per stream of this document, the passes that prepared its text

cache_vars == <<packrat_cache, cache_log>>

scan_vars == <<opt_scan, passes>>

file_vars == <<pc, n_files, opt_strip, parallel, doc, vm, comp_modules, result,
               vba_library_meta, vba_object_meta, cache_vars, scan_vars>>

(***************************************************************************)
(* Python string primitives used by vmonkey.py.                            *)
(***************************************************************************)
Whitespace == {" ", "\t"}

WordChars ==
  {"a","b","c","d","e","f","g","h","i","j","k","l","m","n","o","p","q","r",
   "s","t","u","v","w","x","y","z","A","B","C","D","E","F","G","H","I","J",
   "K","L","M","N","O","P","Q","R","S","T","U","V","W","X","Y","Z","0","1",
   "2","3","4","5","6","7","8","9","_"}

UpperChars == <<"A","B","C","D","E","F","G","H","I","J","K","L","M","N","O",
                "P","Q","R","S","T","U","V","W","X","Y","Z">>

LowerChars == <<"a","b","c","d","e","f","g","h","i","j","k","l","m","n","o",
                "p","q","r","s","t","u","v","w","x","y","z">>

Ch(s, i) == SubSeq(s, i, i)

\* s[i:] with a 1-based i
From(s, i) == SubSeq(s, i, Len(s))

\* s.startswith(p)
StartsWith(s, p) == Len(p) <= Len(s) /\ SubSeq(s, 1, Len(p)) = p

\* s.endswith(p)
EndsWith(s, p) == Len(p) <= Len(s) /\ SubSeq(s, Len(s) - Len(p) + 1, Len(s)) = p

\* sub in s
Contains(sub, s) ==
  \E i \in 0..(Len(s) - Len(sub)) : SubSeq(s, i + 1, i + Len(sub)) = sub

\* the 1-based positions at which sub occurs in s
Occurrences(s, sub) ==
  {i \in 1..(Len(s) - Len(sub) + 1) : SubSeq(s, i, i + Len(sub) - 1) = sub}

\* s.index(sub), 1-based (0 when sub does not occur)
Index(s, sub) ==
  IF Occurrences(s, sub) = {} THEN 0
  ELSE CHOOSE i \in Occurrences(s, sub) : \A j \in Occurrences(s, sub) : i <= j

\* s.rindex(sub), 1-based (0 when sub does not occur)
RIndex(s, sub) ==
  IF Occurrences(s, sub) = {} THEN 0
  ELSE CHOOSE i \in Occurrences(s, sub) : \A j \in Occurrences(s, sub) : i >= j

\* s.count(c) for a one-character c
Count(s, c) == Cardinality(Occurrences(s, c))

RECURSIVE LStrip(_)
LStrip(s) ==
  IF Len(s) > 0 /\ Ch(s, 1) \in Whitespace THEN LStrip(From(s, 2)) ELSE s

RECURSIVE RStrip(_)
RStrip(s) ==
  IF Len(s) > 0 /\ Ch(s, Len(s)) \in Whitespace
  THEN RStrip(SubSeq(s, 1, Len(s) - 1)) ELSE s

\* s.strip()
Strip(s) == RStrip(LStrip(s))

\* s.replace(old, new): every non-overlapping occurrence, left to right
RECURSIVE Replace(_, _, _)
Replace(s, old, new) ==
  IF Len(s) < Len(old) THEN s
  ELSE IF StartsWith(s, old)
       THEN new \o Replace(From(s, Len(old) + 1), old, new)
       ELSE Ch(s, 1) \o Replace(From(s, 2), old, new)

LowerCh(c) ==
  IF \E k \in 1..26 : UpperChars[k] = c
  THEN LowerChars[CHOOSE k \in 1..26 : UpperChars[k] = c] ELSE c

\* s.lower()
RECURSIVE Lower(_)
Lower(s) == IF Len(s) = 0 THEN s ELSE LowerCh(Ch(s, 1)) \o Lower(From(s, 2))

\* the last element appended by "r += x + '\n'" is followed by an empty line
EmptyLine == ""

\* a text from the lines appended to r
TextOf(emitted) == Append(emitted, EmptyLine)

(***************************************************************************)
(* is_useless_dim, is_interesting_call, is_useless_call                    *)
(***************************************************************************)
is_useless_dim(line) ==
  LET l == Strip(line) IN
  IF ~StartsWith(l, "Dim ") THEN FALSE
  ELSE /\ ~Contains("Byte", l)
       /\ ~Contains("Long", l)
       /\ ~Contains("Integer", l)
       /\ ~Contains(":", l)
       /\ ~Contains("=", l)
       /\ ~EndsWith(Strip(l), "_")

log_funcs ==
  {"CreateProcessA", "CreateProcessW", ".run", "CreateObject",
   "Open", ".Open", "GetObject", "Create", ".Create", "Environ",
   "CreateTextFile", ".CreateTextFile", "Eval", ".Eval", "Run",
   "SetExpandedStringValue", "WinExec", "URLDownloadToFile", "Print"}

\* the name between "Function" and "Lib" of a Declare line: decl[start:end].strip()
ext_func_name(ext_func_decl) ==
  LET start == Index(ext_func_decl, "Function") + Len("Function")
      end   == Index(ext_func_decl, "Lib")
  IN Strip(SubSeq(ext_func_decl, start, end - 1))

is_interesting_call(line, external_funcs) ==
  \/ \E func \in log_funcs : Contains(func, line)
  \/ \E k \in 1..Len(external_funcs) :
        /\ Contains("Function", external_funcs[k])
        /\ Contains("Lib", external_funcs[k])
        /\ Contains(ext_func_name(external_funcs[k]), line)

useless_funcs == {"Cos", "Log", "Exp", "Sin", "Tan"}

is_useless_call(line) ==
  IF Contains("=", line) THEN FALSE
  ELSE IF ~Contains("(", line) THEN FALSE
  ELSE LET l == Replace(line, " ", "")
       IN SubSeq(l, 1, Index(l, "(") - 1) \in useless_funcs

(***************************************************************************)
(* collapse_macro_if_blocks: one pass over the lines; curr_blocks is None  *)
(* exactly when tracking is FALSE.                                         *)
(***************************************************************************)
CollapseStart ==
  [tracking |-> FALSE, curr_blocks |-> <<>>, curr_block |-> <<>>, r |-> <<>>]

\* the first block strictly longer than every block before it wins
RECURSIVE biggest_block(_, _)
biggest_block(blocks, biggest) ==
  IF blocks = <<>> THEN biggest
  ELSE biggest_block(Tail(blocks),
                     IF Len(Head(blocks)) > Len(biggest) THEN Head(blocks)
                     ELSE biggest)

\* a line that starts another block of the #if being tracked
IsElseLine(strip_line) ==
  StartsWith(strip_line, "#Else") \/ StartsWith(strip_line, "Else")

CollapseLine(st, line) ==
  LET strip_line == Strip(line) IN
  IF ~st.tracking
  THEN IF StartsWith(strip_line, "#If")
       THEN [st EXCEPT !.tracking = TRUE, !.curr_blocks = <<>>, !.curr_block = <<>>]
       ELSE [st EXCEPT !.r = Append(@, line)]
  ELSE IF IsElseLine(strip_line)
       THEN [st EXCEPT !.curr_blocks = Append(@, st.curr_block), !.curr_block = <<>>]
  ELSE IF StartsWith(strip_line, "#End")
       THEN [tracking |-> FALSE, curr_blocks |-> <<>>, curr_block |-> <<>>,
             r |-> st.r \o biggest_block(Append(st.curr_blocks, st.curr_block), <<>>)]
  ELSE [st EXCEPT !.curr_block = Append(@, line)]

RECURSIVE CollapseScan(_, _)
CollapseScan(st, lines) ==
  IF lines = <<>> THEN st
  ELSE CollapseScan(CollapseLine(st, Head(lines)), Tail(lines))

collapse_macro_if_blocks(vba_code) == TextOf(CollapseScan(CollapseStart, vba_code).r)

(***************************************************************************)
(* assign_re.findall(line): assign_re is optional whitespace, a chain of  *)
(* words joined by single dots (group 1), optional whitespace, "=",        *)
(* optional whitespace.  The scan is left to right from position pos.  A   *)
(* match must end at the first "=" at or after its start; its group 1 is   *)
(* the longest chain that ends right before the "=" and the whitespace run *)
(* that precedes it, and the scan resumes after the whitespace that        *)
(* follows the "=".  An "=" with no chain before it matches nothing.       *)
(***************************************************************************)
FirstEq(line, pos) ==
  LET eqs == {i \in Occurrences(line, "=") : i >= pos}
  IN IF eqs = {} THEN 0 ELSE CHOOSE i \in eqs : \A j \in eqs : i <= j

\* the last index in pos..p that holds no whitespace, pos - 1 when there is none
RECURSIVE SkipWsBack(_, _, _)
SkipWsBack(line, p, pos) ==
  IF p >= pos /\ Ch(line, p) \in Whitespace THEN SkipWsBack(line, p - 1, pos) ELSE p

\* the first index at or after i that holds no whitespace
RECURSIVE SkipWsFwd(_, _)
SkipWsFwd(line, i) ==
  IF i <= Len(line) /\ Ch(line, i) \in Whitespace THEN SkipWsFwd(line, i + 1) ELSE i

\* the leftmost index the chain that holds index i can be extended to
RECURSIVE ChainStart(_, _, _)
ChainStart(line, i, pos) ==
  IF /\ i - 1 >= pos
     /\ \/ Ch(line, i - 1) \in WordChars
        \/ (Ch(line, i - 1) = "." /\ Ch(line, i) \in WordChars)
  THEN ChainStart(line, i - 1, pos)
  ELSE i

RECURSIVE FindAllFrom(_, _)
FindAllFrom(line, pos) ==
  LET e == FirstEq(line, pos) IN
  IF e = 0 THEN {}
  ELSE LET p == SkipWsBack(line, e - 1, pos) IN
       IF p < pos \/ Ch(line, p) \notin WordChars
       THEN FindAllFrom(line, e + 1)
       ELSE LET cs == ChainStart(line, p, pos)
                s  == IF Ch(line, cs) = "." THEN cs + 1 ELSE cs
            IN {SubSeq(line, s, p)} \cup FindAllFrom(line, SkipWsFwd(line, e + 1))

\* the names (group 1) of assign_re.findall(line)
assign_matches(line) == FindAllFrom(line, 1)

(***************************************************************************)
(* strip_useless_code, first loop: the external function declarations, the *)
(* change callbacks and the assigned names with their line numbers.        *)
(* assigns is the set of <<name, line number>> pairs.                      *)
(***************************************************************************)
bool_statements == {"If", "For", "Do"}

\* the data item of a "Sub NAME_Change()" line
change_callback_name(line) ==
  Strip(Replace(Replace(Replace(Replace(Replace(line,
        "Sub ", ""), "Private ", ""), " ", ""), "()", ""), "_Change", ""))

\* the '=' might be in a string: the first '=' lies between the first and last quote
eq_in_string(line) ==
  /\ Contains("\"", line)
  /\ Index(line, "\"") < Index(line, "=")
  /\ RIndex(line, "\"") > Index(line, "=")

\* the text after the last '=' of the line
assigned_val(line) == From(line, RIndex(line, "=") + 1)

\* the names of the line that the first loop adds to assigns
tracked_vars(line, external_funcs) ==
  LET match == assign_matches(line)
      strip_line == Strip(line)
  IN IF match = {} THEN {}
     ELSE IF StartsWith(strip_line, "Function ") THEN {}
     ELSE IF EndsWith(strip_line, "_") THEN {}
     ELSE IF Contains("Sub ", line) \/ Contains("Function ", line) THEN {}
     ELSE IF Contains("GetObject", line) \/ Contains("Shell", line) THEN {}
     ELSE IF is_interesting_call(line, external_funcs) THEN {}
     ELSE IF \E b \in bool_statements : StartsWith(strip_line, b \o " ") THEN {}
     ELSE IF StartsWith(strip_line, ".") \/ StartsWith(Lower(strip_line), "let .") THEN {}
     ELSE IF eq_in_string(line) THEN {}
     ELSE IF Contains(".", assigned_val(line)) THEN {}
     ELSE IF Contains("CreateObject", assigned_val(line)) THEN {}
     ELSE match

ScanStart ==
  [change_callbacks |-> {}, assigns |-> {}, external_funcs |-> <<>>, line_num |-> 0]

ScanLine(st, line) ==
  LET ext == IF Contains("Declare", line) /\ Contains("Lib", line)
             THEN Append(st.external_funcs, Strip(line))
             ELSE st.external_funcs
      cbs == IF Contains("Sub ", line) /\ Contains("_Change(", line)
             THEN st.change_callbacks \cup {change_callback_name(line)}
             ELSE st.change_callbacks
      n   == st.line_num + 1
  IN [change_callbacks |-> cbs,
      external_funcs   |-> ext,
      line_num         |-> n,
      assigns          |-> st.assigns \cup {<<var, n>> : var \in tracked_vars(line, ext)}]

RECURSIVE ScanAssigns(_, _)
ScanAssigns(st, lines) ==
  IF lines = <<>> THEN st ELSE ScanAssigns(ScanLine(st, Head(lines)), Tail(lines))

(***************************************************************************)
(* strip_useless_code, the references and the lines to comment out.        *)
(***************************************************************************)
assigned_names(assigns) == {a[1] : a \in assigns}

\* is_referenced without "if (line_num in assigns[var]): continue"
is_referenced_OwnLinesCount(var, vba_code, assigns, change_callbacks) ==
  \/ Contains(".", var)
  \/ \E n \in 1..Len(vba_code) : Contains(var, vba_code[n])
  \/ \E change_var \in change_callbacks :
        Contains(change_var, var) \/ Contains(var, change_var)

\* refs[var] after the second loop and the change callback loop
is_referenced(var, vba_code, assigns, change_callbacks) ==
  \/ Contains(".", var)
  \/ \E n \in 1..Len(vba_code) : <<var, n>> \notin assigns /\ Contains(var, vba_code[n])
  \/ \E change_var \in change_callbacks :
        Contains(change_var, var) \/ Contains(var, change_var)

comment_lines_of(vba_code, assigns, change_callbacks) ==
  LET unref == {a \in assigns : ~is_referenced(a[1], vba_code, assigns, change_callbacks)}
      keep_lines == {a[2] : a \in assigns \ unref}
  IN {a[2] : a \in unref} \ keep_lines

\* the set comment_lines that strip_useless_code computes for a text
comment_lines(vba_code) ==
  LET st == ScanAssigns(ScanStart, vba_code)
  IN comment_lines_of(vba_code, st.assigns, st.change_callbacks)

(***************************************************************************)
(* strip_useless_code, third loop: what one line appends to r, and the     *)
(* count of unmatched "If " openings after it.                             *)
(***************************************************************************)
\* Application.Run "foo, bar baz": the quotes and the call are removed
fix_application_run(line) ==
  LET l == Replace(Replace(line, "\"", ""), "Application.Run", "")
      field0 == IF Contains(",", l) THEN SubSeq(l, 1, Index(l, ",") - 1) ELSE l
  IN IF Contains(",", l) /\ ~Contains(" ", Strip(field0))
     THEN "WScript.Shell " \o l
     ELSE l

is_application_run(line) ==
  /\ StartsWith(Strip(line), "Application.Run")
  /\ Count(line, "\"") = 2
  /\ EndsWith(Strip(line), "\"")

\* the line carries code in front of a closing 'End Function'
is_unsplit_end_function(line) ==
  EndsWith(line, "End Function") /\ Len(line) > Len("End Function")

\* the line is stripped because of variable usage
is_comment_line(line, line_num, clines) ==
  /\ line_num \in clines
  /\ ~StartsWith(Strip(line), "Function ")
  /\ ~StartsWith(Strip(line), "Sub ")
  /\ ~StartsWith(Strip(line), "End Sub")
  /\ ~StartsWith(Strip(line), "End Function")

\* the lines appended to r for a line that is not an unmatched 'End If'
keep_or_strip(line, line_num, clines) ==
  IF is_comment_line(line, line_num, clines) THEN <<>>
  ELSE IF is_useless_call(line) THEN <<>>
  ELSE IF is_useless_dim(line) THEN <<>>
  ELSE IF is_unsplit_end_function(line)
       THEN <<Replace(line, "End Function", ""), "End Function">>
  ELSE IF is_application_run(line) THEN <<fix_application_run(line)>>
  ELSE <<line>>

\* if_count once the line's 'If ' opening and 'End If' closing are counted
counted_ifs(line, if_count) ==
  (IF StartsWith(Strip(line), "If ") THEN if_count + 1 ELSE if_count)
  - (IF StartsWith(Strip(line), "End If") THEN 1 ELSE 0)

\* the 'End If' has no opening left to close
is_unmatched_end_if(line, if_count) ==
  StartsWith(Strip(line), "End If") /\ counted_ifs(line, if_count) < 0

\* StripLine without "if_count = 0" after a rewrite
StripLine_NoReset(line, line_num, if_count, clines) ==
  IF is_unmatched_end_if(line, if_count)
  THEN [out |-> <<"End Function">>, if_count |-> counted_ifs(line, if_count)]
  ELSE [out |-> keep_or_strip(line, line_num, clines),
        if_count |-> counted_ifs(line, if_count)]

StripLine(line, line_num, if_count, clines) ==
  IF is_unmatched_end_if(line, if_count)
  THEN [out |-> <<"End Function">>, if_count |-> 0]
  ELSE [out |-> keep_or_strip(line, line_num, clines),
        if_count |-> counted_ifs(line, if_count)]

\* the third loop: one record per line of the text, in order
RECURSIVE StripScan(_, _, _, _)
StripScan(lines, line_num, if_count, cl) ==
  IF lines = <<>> THEN <<>>
  ELSE LET step == StripLine(Head(lines), line_num + 1, if_count, cl)
       IN <<step>> \o StripScan(Tail(lines), line_num + 1, step.if_count, cl)

strip_steps(vba_code) == StripScan(vba_code, 0, 0, comment_lines(vba_code))

RECURSIVE Emitted(_)
Emitted(recs) ==
  IF recs = <<>> THEN <<>> ELSE Head(recs).out \o Emitted(Tail(recs))

\* r when the third loop ends
stripped_text(vba_code) == TextOf(Emitted(strip_steps(vba_code)))

strip_useless_code(vba_code) == collapse_macro_if_blocks(stripped_text(vba_code))

(***************************************************************************)
(* parse_stream and parse_streams.  A stream is the tuple                  *)
(* <<subfilename, stream_path, vba_filename, vba_code>> of extract_macros. *)
(* What a call returns is a record: kind "None", "empty", "module" (with   *)
(* m.code) or "raise" (an exception leaves the call).                      *)
(***************************************************************************)
None == "None"

\* core.vba_collapse_long_lines: a line that ends with " _" continues on the next
RECURSIVE vba_collapse_long_lines(_)
vba_collapse_long_lines(lines) ==
  IF Len(lines) <= 1 THEN lines
  ELSE IF EndsWith(lines[1], " _")
       THEN vba_collapse_long_lines(
              <<SubSeq(lines[1], 1, Len(lines[1]) - 1) \o lines[2]>> \o SubSeq(lines, 3, Len(lines)))
       ELSE <<lines[1]>> \o vba_collapse_long_lines(Tail(lines))

\* oletools filter_vba: the Attribute lines at the top of the module are dropped
RECURSIVE filter_vba(_)
filter_vba(lines) ==
  IF lines # <<>> /\ StartsWith(lines[1], "Attribute ") THEN filter_vba(Tail(lines))
  ELSE IF lines = <<>> THEN <<EmptyLine>> ELSE lines

\* the grammar (core) rejects a text with a line whose parentheses do not pair up
module_accepts(lines) ==
  \A k \in 1..Len(lines) : Count(lines[k], "(") = Count(lines[k], ")")

\* vba_code.strip() == ''
is_empty_macro(lines) == \A k \in 1..Len(lines) : Strip(lines[k]) = ""

Returned(kind, code) == [kind |-> kind, code |-> code]

\* parse_stream from "Collapse long lines" on
parse_vba_code(vba_code, strip_useless) ==
  LET filtered == filter_vba(vba_collapse_long_lines(vba_code))
      code == IF strip_useless THEN strip_useless_code(filtered) ELSE filtered
  IN IF is_empty_macro(code) THEN Returned("empty", <<>>)
     ELSE IF module_accepts(code) THEN Returned("module", code)
     ELSE Returned("None", <<>>)

\* "subfilename, stream_path, vba_filename, vba_code = subfilename" needs 4 values
parse_stream(subfilename, stream_path, vba_filename, vba_code, strip_useless) ==
  IF stream_path = None /\ Len(subfilename) # 4
  THEN Returned("raise", <<"ValueError">>)
  ELSE parse_vba_code(IF stream_path = None THEN subfilename[4] ELSE vba_code,
                      strip_useless)

Collected(kind, items) == [kind |-> kind, items |-> items]

\* the loop of parse_streams_serial, r being the modules parsed so far
RECURSIVE serial_loop(_, _, _)
RECURSIVE serial_next(_, _, _, _)
serial_loop(streams, strip_useless, r) ==
  IF streams = <<>> THEN Collected("list", r)
  ELSE serial_next(parse_stream(Head(streams)[1], Head(streams)[2], Head(streams)[3],
                                Head(streams)[4], strip_useless),
                   Tail(streams), strip_useless, r)

\* "if (m is None): return None", else "r.append(m)"
serial_next(m, rest, strip_useless, r) ==
  IF m.kind = "raise" THEN Collected("raise", <<>>)
  ELSE IF m.kind = "None" THEN Collected("None", <<>>)
  ELSE serial_loop(rest, strip_useless, Append(r, m))

parse_streams_serial(streams, strip_useless) == serial_loop(streams, strip_useless, <<>>)

\* what pool.map returns: an exception raised in a worker is raised again
map_results(r) ==
  IF \E k \in 1..Len(r) : r[k].kind = "raise" THEN Collected("raise", <<>>)
  ELSE Collected("list", r)

\* pool.map(parse_stream, args): each worker calls parse_stream(arg) in its own
\* process, arg being the stream's four fields and strip_useless
parse_streams_parallel(streams, strip_useless) ==
  map_results([k \in 1..Len(streams) |->
                 parse_stream(Append(streams[k], strip_useless), None, None, None, FALSE)])

parse_streams(streams, strip_useless, in_parallel) ==
  IF in_parallel THEN parse_streams_parallel(streams, strip_useless)
  ELSE parse_streams_serial(streams, strip_useless)

(***************************************************************************)
(* The packrat cache of the parser (ParserElement.enablePackrat).  An      *)
(* entry is <<document, stream, position>>: the document and the stream    *)
(* whose parse created it, and a position of the stream's text.            *)
(***************************************************************************)
\* the table after module.parseString has run on stream k of document d
parseString_cache(cache, d, k, code) == cache \cup {<<d, k, n>> : n \in 1..Len(code)}

\* parse_stream_cache without ParserElement.resetCache()
parse_stream_cache_NoReset(cache, d, k, m, code) ==
  IF m.kind = "module" THEN parseString_cache(cache, d, k, code)
  ELSE IF m.kind = "None" THEN parseString_cache(cache, d, k, code)
  ELSE cache

\* the table after parse_stream has returned m for stream k: a parse that
\* succeeds is followed by ParserElement.resetCache(), a ParseException leaves
\* the table as the parse filled it, an empty macro is not parsed
parse_stream_cache(cache, d, k, m, code) ==
  IF m.kind = "module" THEN {}
  ELSE IF m.kind = "None" THEN parseString_cache(cache, d, k, code)
  ELSE cache

\* the text parse_stream hands to the parser for a stream
parsed_text(stream, strip_useless) ==
  IF strip_useless THEN strip_useless_code(filter_vba(vba_collapse_long_lines(stream[4])))
  ELSE filter_vba(vba_collapse_long_lines(stream[4]))

\* the loop of parse_streams_serial from stream k on: the table as each call
\* of parse_stream found it (log), and the table when the loop ends
RECURSIVE serial_cache(_, _, _, _, _, _)
serial_cache(streams, strip_useless, d, k, cache, log) ==
  IF k > Len(streams) THEN [cache |-> cache, log |-> log]
  ELSE LET m == parse_stream(streams[k][1], streams[k][2], streams[k][3], streams[k][4],
                             strip_useless)
           after == parse_stream_cache(cache, d, k, m, parsed_text(streams[k], strip_useless))
           seen == Append(log, [k |-> k, at_start |-> cache])
       IN IF m.kind \in {"None", "raise"} THEN [cache |-> after, log |-> seen]
          ELSE serial_cache(streams, strip_useless, d, k + 1, after, seen)

\* the workers of parse_streams_parallel have tables of their own, and every
\* call of parse_stream in them raises before it parses
parse_streams_cache(streams, strip_useless, in_parallel, d, cache) ==
  IF in_parallel THEN cache
  ELSE serial_cache(streams, strip_useless, d, 1, cache, <<>>).cache

parse_streams_cache_log(streams, strip_useless, in_parallel, d, cache) ==
  IF in_parallel THEN <<>>
  ELSE serial_cache(streams, strip_useless, d, 1, cache, <<>>).log

(***************************************************************************)
(* The passes that prepare the text of a stream, by name, in the order in  *)
(* which the code runs them.                                               *)
(***************************************************************************)
\* strip_useless_code: the loop that strips lines and repairs the lines it
\* keeps, then the call of collapse_macro_if_blocks
strip_useless_code_passes ==
  <<"useless_code_stripping", "repairs", "conditional_compilation_collapse">>

\* parse_stream: vba_collapse_long_lines, filter_vba, and strip_useless_code
\* when strip_useless is set
parse_stream_passes(strip_useless) ==
  <<"long_line_collapse", "attribute_filter">>
  \o (IF strip_useless THEN strip_useless_code_passes ELSE <<>>)

\* process_file_scanexpr: filter_vba, and for a macro that is not empty
\* vba_collapse_long_lines
scanexpr_passes(vba_code) ==
  <<"attribute_filter">>
  \o (IF is_empty_macro(filter_vba(vba_code)) THEN <<>> ELSE <<"long_line_collapse">>)

(***************************************************************************)
(* process_file: the emulator, the metadata caches and the document        *)
(* context.  A dict is a function from its keys.                           *)
(***************************************************************************)
EmptyDict == <<>>

\* d[k] = v
DictSet(d, k, v) == [x \in DOMAIN d \cup {k} |-> IF x = k THEN v ELSE d[x]]

\* vm.doc_vars[var_name.lower()] = var_val for each pair, in order
RECURSIVE add_doc_vars(_, _)
add_doc_vars(doc_vars, pairs) ==
  IF pairs = <<>> THEN doc_vars
  ELSE add_doc_vars(DictSet(doc_vars, Lower(Head(pairs)[1]), Head(pairs)[2]), Tail(pairs))

\* the part of a path after its last "/"
basename(path) == From(path, RIndex(path, "/") + 1)

\* None becomes ''
or_empty(v) == IF v = None THEN "" ELSE v

\* .replace('\xb1', '').replace('\x03', ''); the form feed stands for '\x03',
\* for which TLA+ has no escape
strip_marks(v) == Replace(Replace(v, "±", ""), "\f", "")

\* .encode('ascii', 'ignore').replace("\x00", ""): of the characters of this
\* model only '\xb1' is not ASCII
ascii_ignore(v) == Replace(v, "±", "")

\* add_form_variables with "if (val is None): val = caption" left out
add_form_variables_NoCaption(globals, stream_path, form_variables) ==
  LET name == Lower(ascii_ignore(basename(stream_path) \o "." \o form_variables.name))
      short_name == From(name, RIndex(name, ".") + 1)
      val == or_empty(form_variables.value)
  IN [k \in DOMAIN globals \cup {name, short_name} |->
        IF k \in {name, short_name} THEN val ELSE globals[k]]

\* the ten entries one form control adds to vm.globals
add_form_variables(globals, stream_path, form_variables) ==
  LET global_var_name == ascii_ignore(basename(stream_path) \o "." \o form_variables.name)
      tag     == strip_marks(or_empty(form_variables.tag))
      caption == strip_marks(or_empty(form_variables.caption))
      val     == IF form_variables.value = None THEN caption ELSE form_variables.value
      control_tip_text == strip_marks(or_empty(form_variables.control_tip_text))
      name       == Lower(global_var_name)
      short_name == From(name, RIndex(name, ".") + 1)
      full == DictSet(DictSet(DictSet(DictSet(DictSet(globals,
                name, val),
                name \o ".tag", tag),
                name \o ".caption", caption),
                name \o ".controltiptext", control_tip_text),
                name \o ".text", val)
  IN DictSet(DictSet(DictSet(DictSet(DictSet(full,
       short_name, val),
       short_name \o ".tag", tag),
       short_name \o ".caption", caption),
       short_name \o ".controltiptext", control_tip_text),
       short_name \o ".text", val)

\* form_variables is None
NoFormVariables ==
  [name |-> None, tag |-> None, caption |-> None, value |-> None, control_tip_text |-> None]

\* the loop over vba.extract_form_strings_extended()
RECURSIVE add_forms(_, _)
add_forms(globals, forms) ==
  IF forms = <<>> THEN globals
  ELSE add_forms(IF Head(forms)[3] = NoFormVariables THEN globals
                 ELSE add_form_variables(globals, Head(forms)[2], Head(forms)[3]),
                 Tail(forms))

\* the modules of comp_modules that process_file hands to vm.add_compiled_module
RECURSIVE compiled(_)
compiled(items) ==
  IF items = <<>> THEN <<>>
  ELSE (IF Head(items).kind = "empty" THEN <<>> ELSE <<Head(items)>>) \o compiled(Tail(items))

\* the emulation (core): one action for every Shell line of the loaded modules
RECURSIVE shell_lines(_)
shell_lines(lines) ==
  IF lines = <<>> THEN <<>>
  ELSE (IF Contains("Shell", Head(lines)) THEN <<<<"Execute Command", Head(lines)>>>> ELSE <<>>)
       \o shell_lines(Tail(lines))

RECURSIVE trace(_)
trace(modules) ==
  IF modules = <<>> THEN <<>> ELSE shell_lines(Head(modules).code) \o trace(Tail(modules))

NewViperMonkey ==
  [modules |-> <<>>, doc_vars |-> EmptyDict, doc_text |-> "", globals |-> EmptyDict,
   actions |-> <<>>, traced |-> FALSE]

\* vba_library.meta = {}
EmptyMeta == {}

(***************************************************************************)
(* main and process_file as a state machine.  main hands one document      *)
(* after the other to process_file; pc names the statement of process_file *)
(* that runs next.  A document is what its readers deliver: its metadata,  *)
(* its macro streams, its form controls, and the steps at which a reader   *)
(* or the emulator raises an exception.                                    *)
(***************************************************************************)
vars == <<norm_vars, file_vars>>

MaxDocs == 2
MaxStreams == 2
MaxFails == 1

Meta1 == {<<"author", "alice">>}
Meta2 == {<<"author", "bob">>}
MetaValues == {Meta1, Meta2}

\* a macro that runs a command; an Attribute line and a continued line
StreamShell ==
  <<"doc.doc", "Macros/VBA/ThisDocument", "ThisDocument.cls",
    <<"Attribute VB_Name = \"ThisDocument\"", "Sub AutoOpen()", "Shell _", "\"calc\"", "End Sub">>>>

\* a macro the grammar rejects
StreamBroken ==
  <<"doc.doc", "Macros/VBA/Module1", "Module1.bas",
    <<"Sub AutoClose(", "Shell \"cmd\"", "End Sub">>>>

\* a macro with a conditional compilation block and an 'End Function' to split
StreamCond ==
  <<"doc.doc", "Macros/VBA/Module2", "Module2.bas",
    <<"Function F()", "#If Win64 Then", "Shell \"a\"", "#Else", "#End If", "F = 1End Function">>>>

\* a stream without code
StreamEmpty == <<"doc.doc", "Macros/VBA/Module3", "Module3.bas", <<"">>>>

Streams == {StreamShell, StreamBroken, StreamCond, StreamEmpty}
StreamLists == UNION {[1..k -> Streams] : k \in 0..MaxStreams}

\* what vba.extract_form_strings_extended() yields: a stream without form
\* variables, then a text box without tag, value and control tip text
FormStrings ==
  <<<<"doc.doc", "Macros/UserForm1/f", NoFormVariables>>,
    <<"doc.doc", "Macros/UserForm1/o",
      [name |-> "TextBox1", tag |-> None, caption |-> "Cap", value |-> None,
       control_tip_text |-> None]>>>>

\* two text boxes of the same name on two forms, the first with every field
FormStringsTwo ==
  <<<<"doc.doc", "Macros/UserForm1/o",
      [name |-> "TextBox1", tag |-> "t±", caption |-> "C1", value |-> "v1",
       control_tip_text |-> "tip"]>>,
    <<"doc.doc", "Macros/UserForm2/o",
      [name |-> "TextBox1", tag |-> None, caption |-> "C2", value |-> None,
       control_tip_text |-> None]>>>>

FormLists == {FormStrings, FormStringsTwo}

\* what _read_doc_vars and _read_custom_doc_props deliver
DocVars == <<<<"UrlVar", "http://x/a">>, <<"Author", "al">>>>
CustomDocProps == <<<<"AUTHOR", "bob">>>>
DocText == "Enable content"

\* the steps of process_file at which a collaborator may raise
FailSteps == {"construct", "open", "metadata", "parse", "doc_vars", "doc_props",
              "doc_text", "forms", "trace"}
FailSets == {f \in SUBSET FailSteps : Cardinality(f) <= MaxFails}

Docs == [meta : MetaValues, streams : StreamLists, forms : FormLists, fails : FailSets]

NoDoc == [meta |-> EmptyMeta, streams |-> <<>>, forms |-> <<>>, fails |-> {}]

\* what process_file returned: nothing yet, None, or a list of actions
NotReturned == [kind |-> "running", items |-> <<>>]
ReturnedNone == [kind |-> "None", items |-> <<>>]
ReturnedList(items) == [kind |-> "list", items |-> items]

FilesIdle ==
  /\ pc = "main"
  /\ n_files = 0
  /\ opt_strip = FALSE
  /\ parallel = FALSE
  /\ doc = NoDoc
  /\ vm = NewViperMonkey
  /\ comp_modules = Collected("None", <<>>)
  /\ result = NotReturned
  /\ vba_library_meta = EmptyMeta
  /\ vba_object_meta = EmptyMeta
  /\ packrat_cache = {}
  /\ cache_log = <<>>
  /\ opt_scan = FALSE
  /\ passes = <<>>

NormIdle ==
  /\ text_in = <<EmptyLine>>
  /\ applied = <<>>
  /\ last_in = <<>>
  /\ steps = <<>>
  /\ r_out = <<>>

Init ==
  /\ NormIdle
  /\ pc = "main"
  /\ n_files = 0
  /\ opt_strip \in BOOLEAN
  /\ parallel \in BOOLEAN
  /\ doc = NoDoc
  /\ vm = NewViperMonkey
  /\ comp_modules = Collected("None", <<>>)
  /\ result = NotReturned
  /\ vba_library_meta = EmptyMeta
  /\ vba_object_meta = EmptyMeta
  /\ packrat_cache = {}
  /\ cache_log = <<>>
  /\ opt_scan \in BOOLEAN
  /\ passes = <<>>

\* process_file returns v to its caller
Return(v) ==
  /\ result' = v
  /\ pc' = "returned"

\* main: the next file of xglob.iter_files goes to process_file
MainNextFile ==
  /\ pc = "main"
  /\ n_files < MaxDocs
  /\ \E d \in Docs : doc' = d
  /\ n_files' = n_files + 1
  /\ pc' = IF opt_scan THEN "scanexpr" ELSE "construct"
  /\ UNCHANGED <<opt_strip, parallel, vm, comp_modules, result,
                 vba_library_meta, vba_object_meta, norm_vars, cache_vars, scan_vars>>

\* main: the value process_file returned is not kept, its locals are gone, and
\* the loop goes on
MainLoop ==
  /\ pc = "returned"
  /\ pc' = "main"
  /\ doc' = NoDoc
  /\ vm' = NewViperMonkey
  /\ comp_modules' = Collected("None", <<>>)
  /\ result' = NotReturned
  /\ cache_log' = <<>>
  /\ passes' = <<>>
  /\ UNCHANGED <<n_files, opt_strip, parallel, vba_library_meta, vba_object_meta,
                 norm_vars, packrat_cache, opt_scan>>

\* vm = ViperMonkey() and the entry points: before the try
Construct ==
  /\ pc = "construct"
  /\ pc' = IF "construct" \in doc.fails THEN "escaped" ELSE "open"
  /\ vm' = NewViperMonkey
  /\ UNCHANGED <<n_files, opt_strip, parallel, doc, comp_modules, result,
                 vba_library_meta, vba_object_meta, norm_vars, cache_vars, scan_vars>>

\* vba = VBA_Parser(...); if vba.detect_vba_macros(): ... else: return []
OpenContainer ==
  /\ pc = "open"
  /\ IF "open" \in doc.fails THEN Return(ReturnedNone)
     ELSE IF doc.streams = <<>> THEN Return(ReturnedList(<<>>))
     ELSE pc' = "metadata" /\ UNCHANGED result
  /\ UNCHANGED <<n_files, opt_strip, parallel, doc, vm, comp_modules,
                 vba_library_meta, vba_object_meta, norm_vars, cache_vars, scan_vars>>

\* "Read in document metadata."
ReadMetadata ==
  /\ pc = "metadata"
  /\ IF "metadata" \in doc.fails
     THEN vba_library_meta' = EmptyMeta /\ UNCHANGED vba_object_meta
     ELSE vba_library_meta' = doc.meta /\ vba_object_meta' = doc.meta
  /\ pc' = "parse"
  /\ UNCHANGED <<n_files, opt_strip, parallel, doc, vm, comp_modules, result, norm_vars, cache_vars, scan_vars>>

\* "Parse the VBA streams." and vm.add_compiled_module
ParseStreams ==
  /\ pc = "parse"
  /\ comp_modules' = IF "parse" \in doc.fails THEN Collected("raise", <<>>)
                     ELSE parse_streams(doc.streams, opt_strip, parallel)
  /\ IF comp_modules'.kind \in {"raise", "None"}
     THEN Return(ReturnedNone) /\ UNCHANGED vm
     ELSE /\ vm' = [vm EXCEPT !.modules = compiled(comp_modules'.items)]
          /\ pc' = "context"
          /\ UNCHANGED result
  /\ cache_log' = IF "parse" \in doc.fails THEN <<>>
                   ELSE parse_streams_cache_log(doc.streams, opt_strip, parallel,
                                                n_files, packrat_cache)
  /\ packrat_cache' = IF "parse" \in doc.fails THEN packrat_cache
                       ELSE parse_streams_cache(doc.streams, opt_strip, parallel,
                                                n_files, packrat_cache)
  /\ passes' = [k \in 1..Len(cache_log') |-> parse_stream_passes(opt_strip)]
  /\ UNCHANGED <<n_files, opt_strip, parallel, doc, vba_library_meta, vba_object_meta,
                 norm_vars, opt_scan>>

\* the document variables, the custom properties and the document text
ReadDocContext ==
  /\ pc = "context"
  /\ LET doc_vars == IF "doc_vars" \in doc.fails THEN <<>> ELSE DocVars
         doc_props == IF "doc_props" \in doc.fails THEN <<>> ELSE CustomDocProps
         doc_text == IF "doc_text" \in doc.fails THEN "" ELSE DocText
     IN vm' = [vm EXCEPT !.doc_vars = add_doc_vars(add_doc_vars(@, doc_vars), doc_props),
                         !.doc_text = doc_text]
  /\ pc' = "forms"
  /\ UNCHANGED <<n_files, opt_strip, parallel, doc, comp_modules, result,
                 vba_library_meta, vba_object_meta, norm_vars, cache_vars, scan_vars>>

\* "Pull out form variables."; a failure is logged and raised again
ReadForms ==
  /\ pc = "forms"
  /\ IF "forms" \in doc.fails THEN Return(ReturnedNone) /\ UNCHANGED vm
     ELSE /\ vm' = [vm EXCEPT !.globals = add_forms(@, doc.forms)]
          /\ pc' = "trace"
          /\ UNCHANGED result
  /\ UNCHANGED <<n_files, opt_strip, parallel, doc, comp_modules,
                 vba_library_meta, vba_object_meta, norm_vars, cache_vars, scan_vars>>

\* vm.trace(); return vm.actions
Trace ==
  /\ pc = "trace"
  /\ IF "trace" \in doc.fails THEN Return(ReturnedNone) /\ UNCHANGED vm
     ELSE /\ vm' = [vm EXCEPT !.actions = trace(vm.modules), !.traced = TRUE]
          /\ Return(ReturnedList(trace(vm.modules)))
  /\ UNCHANGED <<n_files, opt_strip, parallel, doc, comp_modules,
                 vba_library_meta, vba_object_meta, norm_vars, cache_vars, scan_vars>>

\* process_file_scanexpr: every failure is printed and the function returns
\* nothing; the metadata is read without a handler of its own
ScanExpr ==
  /\ pc = "scanexpr"
  /\ LET opened == "open" \notin doc.fails /\ doc.streams # <<>>
         read == opened /\ "metadata" \notin doc.fails
     IN /\ vba_library_meta' = IF read THEN doc.meta ELSE vba_library_meta
        /\ passes' = IF read THEN [k \in 1..Len(doc.streams) |->
                                     scanexpr_passes(doc.streams[k][4])]
                      ELSE <<>>
  /\ Return(ReturnedNone)
  /\ UNCHANGED <<n_files, opt_strip, parallel, doc, vm, comp_modules, vba_object_meta,
                 norm_vars, cache_vars, opt_scan>>

Next ==
  \/ MainNextFile
  \/ MainLoop
  \/ Construct
  \/ OpenContainer
  \/ ReadMetadata
  \/ ParseStreams
  \/ ReadDocContext
  \/ ReadForms
  \/ Trace
  \/ ScanExpr

Spec == Init /\ [][Next]_vars

(***************************************************************************)
(* The normalizer as a state machine: a pass is applied to a text, and     *)
(* then once more to its own result.                                       *)
(***************************************************************************)
\* the texts of 1..n lines over a set of lines
TextsOver(lines, n) == UNION {[1..k -> lines] : k \in 1..n}

NormStart(texts) ==
  /\ FilesIdle
  /\ text_in \in texts
  /\ applied = <<>>
  /\ last_in = <<>>
  /\ steps = <<>>
  /\ r_out = <<>>

\* the text the next pass is applied to
current_text == IF applied = <<>> THEN text_in ELSE r_out

ApplyStripUselessCode ==
  /\ applied \in {<<>>, <<"strip_useless_code">>}
  /\ applied' = Append(applied, "strip_useless_code")
  /\ last_in' = current_text
  /\ steps' = strip_steps(current_text)
  /\ r_out' = strip_useless_code(current_text)
  /\ UNCHANGED <<text_in, file_vars>>

ApplyCollapseMacroIfBlocks ==
  /\ applied \in {<<>>, <<"collapse_macro_if_blocks">>}
  /\ applied' = Append(applied, "collapse_macro_if_blocks")
  /\ last_in' = current_text
  /\ steps' = <<>>
  /\ r_out' = collapse_macro_if_blocks(current_text)
  /\ UNCHANGED <<text_in, file_vars>>

NormNext == ApplyStripUselessCode \/ ApplyCollapseMacroIfBlocks

\* lines with If openings and End If closings
IfLines == {"If x Then", "  If y = 1 Then", "End If", "  End If", "ElseIf z Then",
            "End If: a = 1"}
MaxIfLines == 4

\* lines of conditional compilation blocks
CondLines == {"#If Win64 Then", "#ElseIf Mac Then", "#Else", "#End If", "Else",
              "x = 1", "Shell cmd"}
MaxCondLines == 4

\* assignments, calls and string literals
StripLines == {"a = 1", "b = a", "x = Shell(\"calc\")", "Cos(Shell(\"calc\"))",
               "Application.Run \"calc\"", "MsgBox \"End Function\"End Function",
               "Foo 1End Function", "  End Function"}
MaxStripLines == 3


\* assignments with and without references, a change callback, a dotted name
RefLines == {"va = 1", "vb = va", "vc = vd = 2", "MsgBox vd", "Private Sub tb_Change()",
             "tbx = 5", "o.p = 3"}
MaxRefLines == 3

SpecRef == NormStart(TextsOver(RefLines, MaxRefLines)) /\ [][NormNext]_vars
\* a Declare line, an assignment that calls the declared function, a reference
DeclLines == {"Declare Function MyExt Lib \"k\" ()", "q = MyExt(1)", "MsgBox q", "r = 2"}
MaxDeclLines == 3

SpecDecl == NormStart(TextsOver(DeclLines, MaxDeclLines)) /\ [][NormNext]_vars
\* lines that open, continue or close a block on a comparison, an assignment
\* of the compared name, a reference to it
CtlLines == {"If k = 2 Then", "ElseIf k = 2 Then", "While k = 2", "Loop Until k = 2",
             "For k = 1 To 3", "Select Case k = 2", "k = 3", "MsgBox k"}
MaxCtlLines == 3

SpecCtl == NormStart(TextsOver(CtlLines, MaxCtlLines)) /\ [][NormNext]_vars
SpecIf == NormStart(TextsOver(IfLines, MaxIfLines)) /\ [][NormNext]_vars
SpecCond == NormStart(TextsOver(CondLines, MaxCondLines)) /\ [][NormNext]_vars
SpecStrip == NormStart(TextsOver(StripLines, MaxStripLines)) /\ [][NormNext]_vars

(***************************************************************************)
(* Properties of the normalizer.                                           *)
(***************************************************************************)
LastApplied == IF applied = <<>> THEN "none" ELSE applied[Len(applied)]

\* the same pass has been applied to a text and then to its own result
AppliedTwice == applied # <<>> /\ applied # <<LastApplied>>

\* C3: the normalizer is idempotent: strip_useless_code and
\* collapse_macro_if_blocks applied to their own output return it unchanged,
\* trailing newlines and remaining assignment lines included.
C3_Idempotent == AppliedTwice => r_out = last_in

\* the double-quoted string literals of a line, quotes included, in order
RECURSIVE Literals(_)
Literals(s) ==
  LET i == Index(s, "\"") IN
  IF i = 0 THEN <<>>
  ELSE LET j == Index(From(s, i + 1), "\"") IN
       IF j = 0 THEN <<>>
       ELSE <<SubSeq(s, i, i + j)>> \o Literals(From(s, i + j + 1))

RECURSIVE LiteralsOfLines(_)
LiteralsOfLines(lines) ==
  IF lines = <<>> THEN <<>> ELSE Literals(Head(lines)) \o LiteralsOfLines(Tail(lines))

\* C4: every line that strip_useless_code keeps carries its string literals
\* byte for byte into the output, quotes included, also through the
\* 'End Function' split and the Application.Run repair.
C4_LiteralsPreserved ==
  LastApplied = "strip_useless_code" =>
    \A i \in 1..Len(last_in) :
      steps[i].out # <<>> => LiteralsOfLines(steps[i].out) = Literals(last_in[i])

IsCondIf(line)   == StartsWith(Strip(line), "#If")
IsCondElse(line) == StartsWith(Strip(line), "#Else")
IsCondEnd(line)  == StartsWith(Strip(line), "#End")

\* the #If, #ElseIf/#Else and #End If lines form blocks that do not nest
RECURSIVE WellFormedCond(_, _)
WellFormedCond(lines, inside) ==
  IF lines = <<>> THEN ~inside
  ELSE IF IsCondIf(Head(lines)) THEN ~inside /\ WellFormedCond(Tail(lines), TRUE)
  ELSE IF IsCondElse(Head(lines)) THEN inside /\ WellFormedCond(Tail(lines), TRUE)
  ELSE IF IsCondEnd(Head(lines)) THEN inside /\ WellFormedCond(Tail(lines), FALSE)
  ELSE WellFormedCond(Tail(lines), inside)

\* the earliest of the arms with the largest number of lines
LargestArm(arms) ==
  arms[CHOOSE k \in 1..Len(arms) :
         /\ \A m \in 1..(k - 1) : Len(arms[m]) < Len(arms[k])
         /\ \A m \in (k + 1)..Len(arms) : Len(arms[m]) <= Len(arms[k])]

\* the lines left when every block is replaced by its largest arm; the arms
\* of a block are separated by its #ElseIf and #Else lines only
RECURSIVE LargestArms(_, _, _, _)
LargestArms(lines, inside, arms, arm) ==
  IF lines = <<>> THEN <<>>
  ELSE LET line == Head(lines) IN
       IF ~inside
       THEN IF IsCondIf(line) THEN LargestArms(Tail(lines), TRUE, <<>>, <<>>)
            ELSE <<line>> \o LargestArms(Tail(lines), FALSE, <<>>, <<>>)
       ELSE IF IsCondElse(line)
            THEN LargestArms(Tail(lines), TRUE, Append(arms, arm), <<>>)
       ELSE IF IsCondEnd(line)
            THEN LargestArm(Append(arms, arm)) \o LargestArms(Tail(lines), FALSE, <<>>, <<>>)
       ELSE LargestArms(Tail(lines), TRUE, arms, Append(arm, line))

\* C5: for each #If ... #ElseIf ... #Else ... #End If block
\* collapse_macro_if_blocks outputs exactly the lines of the arm with the most
\* source lines (the earliest on a tie), unchanged and in order; no other arm
\* and no marker line is output, and lines outside a block are output unchanged.
C5_LargestArmKept ==
  (applied = <<"collapse_macro_if_blocks">> /\ WellFormedCond(last_in, FALSE)) =>
    r_out = TextOf(LargestArms(last_in, FALSE, <<>>, <<>>))

TrackedBuiltins ==
  {"CreateProcessA", "CreateProcessW", "Shell", "Run", "CreateObject", "Open",
   "GetObject", "Create", "Environ", "CreateTextFile", "Eval", "WinExec",
   "URLDownloadToFile", "SetExpandedStringValue", "Print"}

\* the external functions declared by the Declare ... Lib lines of a text
DeclaredExternals(text) ==
  {ext_func_name(Strip(text[k])) :
     k \in {n \in 1..Len(text) : /\ Contains("Declare", text[n])
                                 /\ Contains("Function", text[n])
                                 /\ Contains("Lib", text[n])}}

NamesInterestingCall(line, text) ==
  \E f \in TrackedBuiltins \cup DeclaredExternals(text) : Contains(f, line)

\* the line as written, or as the repairs of strip_useless_code rewrite it
RepairedForms(line) ==
  {line}
  \cup (IF is_application_run(line) THEN {fix_application_run(line)} ELSE {})
  \cup (IF is_unsplit_end_function(line) THEN {Replace(line, "End Function", "")} ELSE {})

\* C6: every line that names a tracked builtin or a declared external function
\* is present in the output of strip_useless_code, whichever stripping rule
\* (unreferenced assignment, useless call, useless Dim) would apply to it.
C6_InterestingCallsKept ==
  applied = <<"strip_useless_code">> =>
    \A i \in 1..Len(last_in) :
      NamesInterestingCall(last_in[i], last_in) =>
        \E k \in 1..Len(r_out) : r_out[k] \in RepairedForms(last_in[i])

IsIfOpening(line) == StartsWith(Strip(line), "If ")
IsEndIf(line)     == StartsWith(Strip(line), "End If")

\* the line holds the End If statement alone, however indented
IsBareEndIf(line) == Strip(line) = "End If"

\* the openings minus the closings among lines a..b
NetIfs(lines, a, b) ==
  Cardinality({k \in a..b : IsIfOpening(lines[k])})
  - Cardinality({k \in a..b : IsEndIf(lines[k])})

\* every closing among lines a..b closes an opening among them, and none is left open
Balanced(lines, a, b) ==
  NetIfs(lines, a, b) = 0 /\ \A k \in a..b : NetIfs(lines, a, k) >= 0

\* an earlier 'If ' opening is closed by the 'End If' of line i
HasMatchingOpening(lines, i) ==
  \E j \in 1..(i - 1) : IsIfOpening(lines[j]) /\ Balanced(lines, j + 1, i - 1)

StreamResult(k) ==
  parse_stream(doc.streams[k][1], doc.streams[k][2], doc.streams[k][3],
               doc.streams[k][4], opt_strip)

\* "Parse the VBA streams." has run for the document
StreamsParsed ==
  /\ pc \in {"context", "forms", "trace", "returned"}
  /\ doc.streams # <<>>
  /\ "open" \notin doc.fails

\* C1: when a stream of a document fails to parse, every other stream is still
\* parsed and added to the emulator, and process_file emulates and returns the
\* recorded actions instead of None.
C1_OtherStreamsContinue ==
  (/\ pc = "returned"
   /\ ~parallel
   /\ doc.fails = {}
   /\ \E k \in 1..Len(doc.streams) : StreamResult(k).kind = "None")
  => /\ result.kind = "list"
     /\ \A k \in 1..Len(doc.streams) :
          StreamResult(k).kind = "module" =>
            \E j \in 1..Len(vm.modules) : vm.modules[j] = StreamResult(k)

\* C2: no exception leaves process_file, whichever step fails.
C2_NoExceptionEscapes == pc # "escaped"

\* C7: strip_useless gates only the stripping pass: with it off, the text handed
\* to the parser still has its #If blocks collapsed (no marker line is left)
\* and its 'End Function' lines split.
C7_CollapseAndRepairsAlways ==
  (StreamsParsed /\ ~opt_strip /\ comp_modules.kind = "list") =>
    \A k \in 1..Len(comp_modules.items) :
      \A n \in 1..Len(comp_modules.items[k].code) :
        LET line == comp_modules.items[k].code[n]
        IN /\ ~IsCondIf(line) /\ ~IsCondElse(line) /\ ~IsCondEnd(line)
           /\ ~is_unsplit_end_function(line)

\* C8: with the worker pool, parse_streams returns for streams that all parse
\* what the serial path returns for them, in the same order.
C8_ParallelEqualsSerial ==
  (/\ StreamsParsed
   /\ parallel
   /\ "parse" \notin doc.fails
   /\ parse_streams_serial(doc.streams, opt_strip).kind = "list")
  => comp_modules = parse_streams_serial(doc.streams, opt_strip)

\* C10: once reading the metadata of a document has failed, both metadata
\* caches the emulation consults are empty, whatever was processed before.
C10_MetadataFailureEmptiesCaches ==
  (pc \in {"parse", "context", "forms", "trace"} /\ "metadata" \in doc.fails)
  => vba_library_meta = EmptyMeta /\ vba_object_meta = EmptyMeta

(***************************************************************************)
(* Properties of assignment stripping.                                     *)
(***************************************************************************)
IsComment(line) == StartsWith(Strip(line), "'")

NoCondBlocks(lines) == \A k \in 1..Len(lines) : ~IsCondIf(lines[k])

\* line i of the pass's input was selected by assignment stripping
SelectedByAssignmentStripping(i) ==
  /\ i \in 1..Len(last_in)
  /\ i \in comment_lines(last_in)
  /\ steps[i].out = <<>>

\* C11: lines selected by assignment stripping are commented out, not deleted:
\* for an input without #If blocks the output of strip_useless_code has one
\* line per input line at the same position, and each selected line is a
\* comment at its position.
C11_StrippedLinesCommentedOut ==
  (applied = <<"strip_useless_code">> /\ NoCondBlocks(last_in)) =>
    /\ Len(r_out) >= Len(last_in)
    /\ \A i \in 1..Len(last_in) :
         SelectedByAssignmentStripping(i) => IsComment(r_out[i])

\* the names the first loop recorded for line i of a text
TrackedNamesOn(text, i) ==
  {a[1] : a \in {x \in ScanAssigns(ScanStart, text).assigns : x[2] = i}}

\* the data items of the Sub NAME_Change() lines of a text
CallbackNames(text) == ScanAssigns(ScanStart, text).change_callbacks

\* the three ways of the claim in which a name counts as referenced
ClaimReferenced(var, text) ==
  \/ \E n \in 1..Len(text) : var \notin TrackedNamesOn(text, n) /\ Contains(var, text[n])
  \/ \E c \in CallbackNames(text) : Contains(c, var) \/ Contains(var, c)
  \/ Contains(".", var)

\* the lines that assignment stripping never removes
StartsProcedure(line) ==
  \/ StartsWith(Strip(line), "Function ")
  \/ StartsWith(Strip(line), "Sub ")
  \/ StartsWith(Strip(line), "End Sub")
  \/ StartsWith(Strip(line), "End Function")

\* C12: a tracked name counts as referenced iff it occurs on a line other than
\* the lines where it is assigned, or it contains or is contained in a
\* discovered change callback name, or it contains '.'; an assignment line is
\* removed only when every tracked name on it is unreferenced (and then it is
\* removed), and is kept when at least one of them is referenced.
C12_ReferencedIff ==
  applied = <<"strip_useless_code">> =>
    \A i \in 1..Len(last_in) :
      LET names == TrackedNamesOn(last_in, i)
          unreferenced == \A v \in names : ~ClaimReferenced(v, last_in)
      IN names # {} =>
           /\ steps[i].out = <<>> => unreferenced
           /\ ~unreferenced => steps[i].out # <<>>
           /\ (unreferenced /\ ~StartsProcedure(last_in[i]) /\ ~IsEndIf(last_in[i]))
                => steps[i].out = <<>>

\* a line with a referenced and an unreferenced name is kept, and a line whose
\* names are all unreferenced is removed
C12_Witness ==
  /\ applied = <<"strip_useless_code">>
  /\ \E i, k \in 1..Len(last_in) :
       /\ \E v, w \in TrackedNamesOn(last_in, i) :
            ClaimReferenced(v, last_in) /\ ~ClaimReferenced(w, last_in)
       /\ steps[i].out = <<last_in[i]>>
       /\ TrackedNamesOn(last_in, k) # {} /\ steps[k].out = <<>>

(***************************************************************************)
(* Properties of collapse_macro_if_blocks.                                 *)
(***************************************************************************)
IsCondMarker(line) == IsCondIf(line) \/ IsCondElse(line) \/ IsCondEnd(line)

\* an ordinary VBA line that begins with Else or ElseIf
IsOrdinaryElse(line) == StartsWith(Strip(line), "Else")

NoOrdinaryElse(lines) == \A k \in 1..Len(lines) : ~IsOrdinaryElse(lines[k])

\* the #If and #End If lines pair up, every #Else lies inside a block, and the
\* deepest nesting reached is deepest
RECURSIVE NestsTo(_, _, _, _)
NestsTo(lines, depth, reached, deepest) ==
  IF lines = <<>> THEN depth = 0 /\ reached = deepest
  ELSE IF IsCondIf(Head(lines))
       THEN NestsTo(Tail(lines), depth + 1,
                    IF depth + 1 > reached THEN depth + 1 ELSE reached, deepest)
  ELSE IF IsCondElse(Head(lines))
       THEN depth > 0 /\ NestsTo(Tail(lines), depth, reached, deepest)
  ELSE IF IsCondEnd(Head(lines))
       THEN depth > 0 /\ NestsTo(Tail(lines), depth - 1, reached, deepest)
  ELSE NestsTo(Tail(lines), depth, reached, deepest)

\* the outputs that emit, for every outermost block, one arm of its flat list
\* of arms: the #Else/#ElseIf lines of either level separate the arms, and no
\* marker line is part of an arm
RECURSIVE FlatOutputs(_, _, _, _)
FlatOutputs(lines, depth, arms, arm) ==
  IF lines = <<>> THEN {<<>>}
  ELSE LET line == Head(lines) IN
       IF depth = 0
       THEN IF IsCondIf(line) THEN FlatOutputs(Tail(lines), 1, <<>>, <<>>)
            ELSE {<<line>> \o o : o \in FlatOutputs(Tail(lines), 0, <<>>, <<>>)}
       ELSE IF IsCondIf(line) THEN FlatOutputs(Tail(lines), depth + 1, arms, arm)
       ELSE IF IsCondElse(line) THEN FlatOutputs(Tail(lines), depth, Append(arms, arm), <<>>)
       ELSE IF IsCondEnd(line)
            THEN IF depth > 1 THEN FlatOutputs(Tail(lines), depth - 1, arms, arm)
                 ELSE {Append(arms, arm)[k] \o o :
                         k \in 1..(Len(arms) + 1),
                         o \in FlatOutputs(Tail(lines), 0, <<>>, <<>>)}
       ELSE FlatOutputs(Tail(lines), depth, arms, Append(arm, line))

\* C13: when an #If block holds a nested #If ... #End If, the outer block is
\* one flat list of arms from the outer #If to the outer #End If; exactly one
\* arm is emitted and no marker line of either level is in the output.
C13_NestedBlockIsFlat ==
  (/\ applied = <<"collapse_macro_if_blocks">>
   /\ NoOrdinaryElse(last_in)
   /\ NestsTo(last_in, 0, 0, 2))
  => /\ \A k \in 1..Len(r_out) : ~IsCondMarker(r_out[k])
     /\ r_out \in {TextOf(o) : o \in FlatOutputs(last_in, 0, <<>>, <<>>)}

(***************************************************************************)
(* Properties of the parser's cache.                                       *)
(***************************************************************************)
\* C14: over the streams of one document, no cache entry created while parsing
\* stream k is present when the parse of a later stream starts: the table is
\* reset after every successful parse.
C14_CacheResetBetweenStreams ==
  \A i \in 1..Len(cache_log) :
    \A e \in cache_log[i].at_start : ~(e[1] = n_files /\ e[2] < cache_log[i].k)

\* two streams of one document have been parsed, the first with success, and
\* the table still holds what an earlier document's failed parse left in it
C14_Witness ==
  /\ Len(cache_log) = 2
  /\ StreamResult(1).kind = "module"
  /\ n_files = 2
  /\ \E e \in cache_log[1].at_start : e[1] = 1
  /\ cache_log[2].at_start = {}

(***************************************************************************)
(* Properties of the document context.                                     *)
(***************************************************************************)
\* the variables and properties the readers delivered for the document
ContextPairs ==
  (IF "doc_vars" \in doc.fails THEN <<>> ELSE DocVars)
  \o (IF "doc_props" \in doc.fails THEN <<>> ELSE CustomDocProps)

\* the pairs with lower-cased names
RECURSIVE LowerCased(_)
LowerCased(pairs) ==
  IF pairs = <<>> THEN <<>>
  ELSE <<<<Lower(Head(pairs)[1]), Head(pairs)[2]>>>> \o LowerCased(Tail(pairs))

\* what a dictionary holds under key k once the pairs are stored in order
LastValue(pairs, k) ==
  pairs[CHOOSE i \in 1..Len(pairs) :
          pairs[i][1] = k /\ \A j \in (i + 1)..Len(pairs) : pairs[j][1] # k][2]

\* a missing field is the empty string; a field is stored without the
\* characters '\xb1' and '\x03'
FieldOrEmpty(v) ==
  IF v = None THEN "" ELSE Replace(Replace(v, "±", ""), "\f", "")

\* the five entries of a form control under the name q
EntriesUnder(q, fv) ==
  LET caption == FieldOrEmpty(fv.caption)
      value == IF fv.value = None THEN caption ELSE fv.value
  IN <<<<q, value>>,
       <<q \o ".tag", FieldOrEmpty(fv.tag)>>,
       <<q \o ".caption", caption>>,
       <<q \o ".controltiptext", FieldOrEmpty(fv.control_tip_text)>>,
       <<q \o ".text", value>>>>

\* the entries of the form-control records, in order: qualified name, short name
RECURSIVE FormEntries(_)
FormEntries(forms) ==
  IF forms = <<>> THEN <<>>
  ELSE (IF Head(forms)[3] = NoFormVariables THEN <<>>
        ELSE EntriesUnder(Lower(basename(Head(forms)[2]) \o "." \o Head(forms)[3].name),
                          Head(forms)[3])
             \o EntriesUnder(Lower(Head(forms)[3].name), Head(forms)[3]))
       \o FormEntries(Tail(forms))

IsBareEndFunction(line) == LStrip(line) = "End Function"

\* the line ends with 'End Function' and holds other code before it (code
\* that does not itself hold the words 'End Function', as a literal may)
HasCodeBeforeEndFunction(line) ==
  /\ EndsWith(line, "End Function")
  /\ ~IsBareEndFunction(line)
  /\ Cardinality(Occurrences(line, "End Function")) = 1

\* the part of the line in front of its closing 'End Function'
BeforeEndFunction(line) == SubSeq(line, 1, Len(line) - Len("End Function"))

\* C16: a line that ends with 'End Function' and holds other code before it is
\* emitted as two lines, the preceding code and 'End Function'; a line that is
\* 'End Function' alone, indented or not, is emitted as one unchanged line.
C16_EndFunctionSplit ==
  LastApplied = "strip_useless_code" =>
    \A i \in 1..Len(last_in) :
      /\ HasCodeBeforeEndFunction(last_in[i])
           => steps[i].out = <<BeforeEndFunction(last_in[i]), "End Function">>
      /\ IsBareEndFunction(last_in[i]) => steps[i].out = <<last_in[i]>>

(***************************************************************************)
(* Properties of the order of the passes.                                  *)
(***************************************************************************)
\* the place of a pass in the specified order
PassRank(name) ==
  CASE name = "long_line_collapse" -> 1
    [] name = "attribute_filter" -> 2
    [] name = "conditional_compilation_collapse" -> 3
    [] name = "useless_code_stripping" -> 4
    [] name = "repairs" -> 5

\* C17: on every path that prepares stream text, in parse_stream and in
\* process_file_scanexpr, the passes run in the order long-line collapse,
\* Attribute filter, conditional-compilation collapse, useless-code stripping,
\* repairs.
C17_PassesInSpecifiedOrder ==
  \A k \in 1..Len(passes) :
    \A i, j \in 1..Len(passes[k]) :
      i < j => PassRank(passes[k][i]) < PassRank(passes[k][j])

(***************************************************************************)
(* Properties of the arms of a block.                                      *)
(***************************************************************************)
\* line i lies inside a block: an #If above it is not yet closed
InsideBlock(lines, i) ==
  \E j \in 1..(i - 1) :
    IsCondIf(lines[j]) /\ \A k \in (j + 1)..(i - 1) : ~IsCondEnd(lines[k])

\* C18: inside a block only #ElseIf and #Else end an arm: an ordinary line that
\* begins with Else or ElseIf is a line of its arm, so that the arm selected
\* (sizes counted over all source lines) is emitted with these lines in it.
C18_OrdinaryElseStaysInArm ==
  (/\ applied = <<"collapse_macro_if_blocks">>
   /\ WellFormedCond(last_in, FALSE)
   /\ \E i \in 1..Len(last_in) : IsOrdinaryElse(last_in[i]) /\ InsideBlock(last_in, i))
  => r_out = TextOf(LargestArms(last_in, FALSE, <<>>, <<>>))

\* the #If of line j is never closed: no marker line follows it, and the blocks
\* in front of it are complete
UnclosedIfAt(lines, j) ==
  /\ IsCondIf(lines[j])
  /\ \A k \in (j + 1)..Len(lines) : ~IsCondMarker(lines[k])
  /\ WellFormedCond(SubSeq(lines, 1, j - 1), FALSE)

\* C19: collapse_macro_if_blocks loses no code other than discarded arms; in
\* particular, when an #If has no matching #End before the end of the input,
\* the lines that follow it are in the output, in input order.
C19_NoCodeLost ==
  (applied = <<"collapse_macro_if_blocks">> /\ NoOrdinaryElse(last_in)) =>
    \A j \in 1..Len(last_in) :
      UnclosedIfAt(last_in, j) =>
        r_out = TextOf(LargestArms(SubSeq(last_in, 1, j - 1), FALSE, <<>>, <<>>)
                       \o SubSeq(last_in, j + 1, Len(last_in)))

(***************************************************************************)
(* Properties of the exemption of external functions.                      *)
(***************************************************************************)
\* an assignment line that names a function declared by a Declare ... Lib line
\* of the text, wherever that line stands
AssignsFromDeclaredExternal(line, text) ==
  /\ assign_matches(line) # {}
  /\ \E f \in DeclaredExternals(text) : Contains(f, line)

\* C20: an assignment line that names a user-declared external function is
\* exempt from assignment stripping, whether the Declare line stands before
\* the assignment line or after it.
C20_ExternalExemptAnyOrder ==
  applied = <<"strip_useless_code">> =>
    \A i \in 1..Len(last_in) :
      AssignsFromDeclaredExternal(last_in[i], last_in) => steps[i].out = <<last_in[i]>>

(***************************************************************************)
(* Properties of the control-flow lines.                                   *)
(***************************************************************************)
ControlKeywords == {"If", "ElseIf", "While", "For", "Do", "Loop", "Select Case"}

\* the line begins with a keyword that opens, continues or closes a block
BeginsControlFlow(line) ==
  \E kw \in ControlKeywords :
    Strip(line) = kw \/ StartsWith(Strip(line), kw \o " ")

\* C21: strip_useless_code never removes a control-flow line: the '=' of a
\* line beginning with If, ElseIf, While, For, Do, Loop or Select Case is never
\* recorded as an assignment, and every such line of the input is present in
\* the output.
C21_ControlFlowLinesKept ==
  applied = <<"strip_useless_code">> =>
    \A i \in 1..Len(last_in) :
      BeginsControlFlow(last_in[i]) =>
        /\ TrackedNamesOn(last_in, i) = {}
        /\ steps[i].out = <<last_in[i]>>

====
